---- MODULE Spec2Model ----
(***************************************************************************)
(* Model of pyrevit/__init__.py (host identity, application directories,   *)
(* file prefixes, PyRevitException) and pyrevit/coreutils/logger.py (level *)
(* selection, shared handlers, logger registry, session flags).            *)
(*                                                                         *)
(* A host session runs scripts one after another; every script gets a      *)
(* fresh scripting engine, so module-level state starts anew with every    *)
(* script while the session environment variables and the file system      *)
(* persist.  Python strings that the code formats, splits or concatenates  *)
(* are sequences of one-character strings.                                 *)
(***************************************************************************)
EXTENDS Integers, Sequences, FiniteSets, TLC

\* ---------------------------------------------------------------- bounds
MaxUserLen == 3
MaxArgs == 2
MaxTb == 2

\* ------------------------------------------------------- python helpers
\* Python's None, and the marker of a module-level name not bound (yet).
None == <<"None">>
Unbound == <<"Unbound">>

RECURSIVE StrsUpTo(_, _)
StrsUpTo(chars, n) ==
    IF n = 0 THEN {<<>>}
    ELSE LET shorter == StrsUpTo(chars, n - 1)
         IN  shorter \cup {Append(s, c) : s \in shorter, c \in chars}

Digit(d) == <<"0","1","2","3","4","5","6","7","8","9">>[d + 1]

\* '{}'.format(n) of a non-negative integer: its decimal digits.
RECURSIVE IntToStr(_)
IntToStr(n) ==
    IF n < 10 THEN <<Digit(n)>> ELSE IntToStr(n \div 10) \o <<Digit(n % 10)>>

\* s.split(sep)[0]: the part of s before the first occurrence of sep.
RECURSIVE SplitFirst(_, _)
SplitFirst(s, sep) ==
    IF s = <<>> THEN <<>>
    ELSE IF Head(s) = sep THEN <<>>
    ELSE <<Head(s)>> \o SplitFirst(Tail(s), sep)

\* s.replace(ch, ''): every occurrence of ch removed.
RECURSIVE RemoveChar(_, _)
RemoveChar(s, ch) ==
    IF s = <<>> THEN <<>>
    ELSE IF Head(s) = ch THEN RemoveChar(Tail(s), ch)
    ELSE <<Head(s)>> \o RemoveChar(Tail(s), ch)

\* os.path.join of two relative, drive-less components (ntpath).
op_join(a, b) ==
    IF a # <<>> /\ a[Len(a)] \notin {"\\", "/"} THEN a \o <<"\\">> \o b ELSE a \o b

\* ------------------------------------------------ pyrevit/__init__.py
PYREVIT_ADDON_NAME == <<"p","y","R","e","v","i","t">>
TRACEBACK_TITLE == <<"T","r","a","c","e","b","a","c","k",":">>

\* Inputs of the host: user names, version numbers, process ids, %appdata%.
UserChars == {"a", "@", "."}
Usernames == StrsUpTo(UserChars, MaxUserLen)
Versions == {<<"2","0","1","6">>, <<"2","0","1","7">>}
ProcIds == {7, 4120}
AppDataDirs == {<<"R">>, <<"R","\\">>}
\* Outcome of an os.mkdir call: "ok" or the string of the OSError/IOException.
OSErrors == {<<"E","1","3">>, <<"E","5">>}

VARIABLES
    pc,                 \* "idle" | "failed" | "pyrevit" | "logger": how far the script's imports got
    env_vars,           \* pyRevit session variables: name -> value (persist between scripts)
    USER_ROAMING_DIR,   \* os.getenv('appdata')
    fs_dirs,            \* directories that exist (persist between scripts)
    fs_before,          \* history: the directories that existed when this script started
    last_mode_op,       \* history: last mode operation executed in the session
    uiapp,              \* __revit__: [Username, VersionNumber]
    proc_id,            \* Process.GetCurrentProcess().Id
    doc_mode,           \* __sphinx__
    forced_debug_mode,  \* __forceddebugmode__
    PYREVIT_APP_DIR,
    PYREVIT_VERSION_APP_DIR,
    sys_path,           \* entries appended to sys.path by this script
    mkdir_calls,        \* history: [dir, outcome] of every os.mkdir call of this script
    init_exc,           \* exception raised by the import of pyrevit: [raised, args]
    PYREVIT_FILE_PREFIX_UNIVERSAL,
    PYREVIT_FILE_PREFIX,
    PYREVIT_FILE_PREFIX_STAMPED,
    RUNTIME_LOGGING_LEVEL,
    stdout_hndlr,       \* [level]
    file_hndlr,         \* [level]
    FILE_LOGGING_STATUS,
    loggers,            \* the registry: key -> logger id, 0 when the key is absent
    loggerDict,         \* logging.Logger.manager.loggerDict: name -> logger id, 0 when absent
    objs,               \* logger instances by id: [name, handlers, propagate]
    first,              \* history: name -> logger returned by the first get_logger(name)
    last,               \* the last operation and what it returned
    sys_exc,            \* sys.exc_type/exc_value/exc_traceback as set by __str__
    str_result          \* result of the last str(PyRevitException)

boot_vars == <<fs_before, uiapp, proc_id, doc_mode, forced_debug_mode, PYREVIT_APP_DIR,
               PYREVIT_VERSION_APP_DIR, sys_path, mkdir_calls, init_exc,
               PYREVIT_FILE_PREFIX_UNIVERSAL, PYREVIT_FILE_PREFIX,
               PYREVIT_FILE_PREFIX_STAMPED>>
log_vars == <<RUNTIME_LOGGING_LEVEL, stdout_hndlr, file_hndlr, FILE_LOGGING_STATUS,
              loggers, loggerDict, objs, first>>
str_vars == <<sys_exc, str_result>>
vars == <<pc, env_vars, USER_ROAMING_DIR, fs_dirs, last_mode_op, boot_vars, log_vars, last, str_vars>>

\* Variant of username that keeps the dots of the user name.
username_keeps_dots(app) ==
    LET uname == app.Username
    IN  SplitFirst(uname, "@")

\* _HostApplication.username
username(app) ==
    LET uname == app.Username
        cut == SplitFirst(uname, "@")
    IN  RemoveChar(cut, ".")

\* _HostApplication.version
version(app) == app.VersionNumber

\* 'Can not access pyRevit folder at: {} | {}'.format(pyrvt_app_dir, err)
CanNotAccessMsg(dir, err) ==
    <<"C","a","n"," ","n","o","t"," ","a","c","c","e","s","s"," ","p","y","R","e","v",
      "i","t"," ","f","o","l","d","e","r"," ","a","t",":"," ">>
    \o dir \o <<" ","|"," ">> \o err

NoException == [raised |-> FALSE, args |-> <<>>]
RaisedException(a) == [raised |-> TRUE, args |-> a]

\* Variant of the directory loop that extends sys.path before os.mkdir is called.
RECURSIVE MakeAppDirs_path_first(_, _, _, _)
MakeAppDirs_path_first(dirs, i, st, outcome) ==
    IF i > Len(dirs) THEN st
    ELSE LET pyrvt_app_dir == dirs[i]
             call == [dir |-> pyrvt_app_dir, outcome |-> outcome[i]]
         IN  IF pyrvt_app_dir \in st.fs
             THEN MakeAppDirs_path_first(dirs, i + 1, st, outcome)
             ELSE IF outcome[i] \notin OSErrors
             THEN MakeAppDirs_path_first(dirs, i + 1,
                              [st EXCEPT !.fs = @ \cup {pyrvt_app_dir},
                                         !.path = Append(@, pyrvt_app_dir),
                                         !.calls = Append(@, call)],
                              outcome)
             ELSE [st EXCEPT !.path = Append(@, pyrvt_app_dir),
                             !.calls = Append(@, call),
                             !.exc = RaisedException(
                                 <<CanNotAccessMsg(pyrvt_app_dir, outcome[i])>>)]

\* The loop over [PYREVIT_APP_DIR, PYREVIT_VERSION_APP_DIR]: st is
\* [fs, path, calls, exc]; outcome[i] is what os.mkdir does if called for dirs[i].
RECURSIVE MakeAppDirs(_, _, _, _)
MakeAppDirs(dirs, i, st, outcome) ==
    IF i > Len(dirs) THEN st
    ELSE LET pyrvt_app_dir == dirs[i]
             call == [dir |-> pyrvt_app_dir, outcome |-> outcome[i]]
         IN  IF pyrvt_app_dir \in st.fs
             THEN MakeAppDirs(dirs, i + 1, st, outcome)
             ELSE IF outcome[i] \notin OSErrors
             THEN MakeAppDirs(dirs, i + 1,
                              [st EXCEPT !.fs = @ \cup {pyrvt_app_dir},
                                         !.path = Append(@, pyrvt_app_dir),
                                         !.calls = Append(@, call)],
                              outcome)
             ELSE [st EXCEPT !.calls = Append(@, call),
                             !.exc = RaisedException(
                                 <<CanNotAccessMsg(pyrvt_app_dir, outcome[i])>>)]

\* '{}_{}'.format(...), '{}_{}_{}'.format(...), '{}_{}_{}_{}'.format(...)
FilePrefixUniversal(app) == PYREVIT_ADDON_NAME \o <<"_">> \o username(app)
FilePrefix(app) ==
    PYREVIT_ADDON_NAME \o <<"_">> \o version(app) \o <<"_">> \o username(app)
FilePrefixStamped(app, pid) ==
    PYREVIT_ADDON_NAME \o <<"_">> \o version(app) \o <<"_">> \o username(app)
    \o <<"_">> \o IntToStr(pid)


\* ------------------------------------------- PyRevitException.__str__
ArgStrs == {<<"m">>, <<"x","'">>}
ExcArgs == UNION {[1..n -> ArgStrs] : n \in 0..MaxArgs}
Frames == {[file |-> <<"f">>, line |-> 3, name |-> <<"g">>],
           [file |-> <<"f">>, line |-> 12, name |-> <<"h">>],
           [file |-> <<"k">>, line |-> 3, name |-> <<"g">>]}
\* sys.exc_info(): (None, None, None) when no exception is being handled,
\* else the traceback has at least one entry.
ExcInfos == {[type |-> "None", tb |-> <<>>]}
            \cup {[type |-> "Exception", tb |-> t] :
                    t \in UNION {[1..n -> Frames] : n \in 1..MaxTb}}

\* One entry of traceback.format_tb: '  File "%s", line %d, in %s\n'
FormatFrame(f) ==
    <<" "," ","F","i","l","e"," ","\"">> \o f.file \o <<"\"",","," ","l","i","n","e"," ">>
    \o IntToStr(f.line) \o <<","," ","i","n"," ">> \o f.name \o <<"\n">>

\* traceback.format_tb(tb): [] for a None traceback
format_tb(tb) == [i \in 1..Len(tb) |-> FormatFrame(tb[i])]

\* repr of a str: quoted with ', or with " when it holds a ' (and no ")
py_repr(s) ==
    IF \E i \in 1..Len(s) : s[i] = "'" THEN <<"\"">> \o s \o <<"\"">>
    ELSE <<"'">> \o s \o <<"'">>

RECURSIVE JoinReprs(_)
JoinReprs(a) ==
    IF Len(a) = 1 THEN py_repr(a[1])
    ELSE py_repr(a[1]) \o <<",", " ">> \o JoinReprs(Tail(a))

\* Exception.__str__: '' without arguments, str(args[0]) with one, str(args) else
Exception_str(a) ==
    IF Len(a) = 0 THEN <<>>
    ELSE IF Len(a) = 1 THEN a[1]
    ELSE <<"(">> \o JoinReprs(a) \o <<")">>

Returned(v) == [raised |-> FALSE, value |-> v]
Raised == [raised |-> TRUE, value |-> <<>>]

\* The try block of __str__; fmt_fails: traceback.format_tb itself raises.
StrTryBlock(a, exc_traceback, fmt_fails) ==
    IF fmt_fails THEN Raised
    ELSE LET entries == format_tb(exc_traceback)
         IN  IF Len(entries) = 0 THEN Raised      \* IndexError of [0]
             ELSE LET tb_report == entries[1]
                  IN  IF Len(a) > 0
                      THEN Returned(a[1] \o <<"\n","\n">> \o TRACEBACK_TITLE
                                    \o <<"\n">> \o tb_report)
                      ELSE Returned(TRACEBACK_TITLE \o <<"\n">> \o tb_report)

\* Variant of __str__ without the except clause.
PyRevitException_str_no_except(a, exc_traceback, fmt_fails) ==
    StrTryBlock(a, exc_traceback, fmt_fails)

\* PyRevitException.__str__: try ... except: return Exception.__str__(self)
PyRevitException_str(a, exc_traceback, fmt_fails) ==
    LET body == StrTryBlock(a, exc_traceback, fmt_fails)
    IN  IF body.raised THEN Returned(Exception_str(a)) ELSE body

\* str(e) of a PyRevitException e with arguments a, while exc_info is handled
Render(a, exc_info, fmt_fails) ==
    /\ sys_exc' = exc_info
    /\ str_result' = [args |-> a, fmt_fails |-> fmt_fails,
                      out |-> PyRevitException_str(a, exc_info.tb, fmt_fails)]
    /\ last' = [op |-> "str", name |-> "", logger |-> 0, ret |-> 0, level |-> 0,
                hit |-> FALSE]
    /\ UNCHANGED <<pc, env_vars, USER_ROAMING_DIR, fs_dirs, last_mode_op, boot_vars,
                   log_vars>>

\* ------------------------------------------ pyrevit/coreutils/logger.py
\* levels of the logging package
CRITICAL == 50
ERROR == 40
WARNING == 30
INFO == 20
DEBUG == 10
NOTSET == 0
StdLevels == {CRITICAL, ERROR, WARNING, INFO, DEBUG, NOTSET}

DEBUG_ISC_NAME == PYREVIT_ADDON_NAME \o <<"_","d","e","b","u","g","I","S","C">>
VERBOSE_ISC_NAME == PYREVIT_ADDON_NAME \o <<"_","v","e","r","b","o","s","e","I","S","C">>
RUNTIME_FILE_LOGGING_LEVEL == DEBUG

\* Python values kept in session variables, and their truth value.
PyValues == {"None", "False", "True"}
Truthy(v) == v = "True"
PyBool(b) == IF b THEN "True" ELSE "False"

\* envvars.get_pyrevit_env_var / set_pyrevit_env_var: a session-wide store;
\* a variable never set reads as None.
get_pyrevit_env_var(env, param_name) == env[param_name]
set_pyrevit_env_var(env, param_name, param_value) ==
    [env EXCEPT ![param_name] = param_value]

\* Names scripts ask loggers for; 'logger_name' is a name like any other.
LoggerNames == {"a", "logger_name"}
NoLogger == 0

\* Variant of the level selection that tests the verbose variable last.
SelectLevel_verbose_last(doc, env, forced) ==
    LET l0 == WARNING
        l1 == IF Truthy(get_pyrevit_env_var(env, DEBUG_ISC_NAME)) THEN DEBUG ELSE l0
        l2 == IF forced THEN DEBUG ELSE l1
        l3 == IF Truthy(get_pyrevit_env_var(env, VERBOSE_ISC_NAME)) THEN INFO ELSE l2
    IN  IF ~doc THEN l3 ELSE l0

\* The level selection of the module body.
SelectLevel(doc, env, forced) ==
    LET l0 == WARNING
        l1 == IF Truthy(get_pyrevit_env_var(env, VERBOSE_ISC_NAME)) THEN INFO ELSE l0
        l2 == IF Truthy(get_pyrevit_env_var(env, DEBUG_ISC_NAME)) THEN DEBUG ELSE l1
        l3 == IF forced THEN DEBUG ELSE l2
    IN  IF ~doc THEN l3 ELSE l0

Op(op, name, logger, ret, level, hit) ==
    [op |-> op, name |-> name, logger |-> logger, ret |-> ret, level |-> level,
     hit |-> hit]

\* State of the logger module of a script before the module body has run.
LoggerModuleFresh ==
    /\ RUNTIME_LOGGING_LEVEL' = WARNING
    /\ stdout_hndlr' = [level |-> NOTSET]
    /\ file_hndlr' = [level |-> NOTSET]
    /\ FILE_LOGGING_STATUS' = FALSE
    /\ loggers' = [k \in LoggerNames |-> NoLogger]
    /\ loggerDict' = [k \in LoggerNames |-> NoLogger]
    /\ objs' = <<>>
    /\ first' = [k \in LoggerNames |-> NoLogger]

\* The module body of pyrevit/__init__.py, run when a script of the session
\* starts: a fresh engine, so every module-level name of the script starts anew.
ImportPyrevit(doc, forced, outcome) ==
    LET app_dir == IF doc THEN <<" ">> ELSE op_join(USER_ROAMING_DIR, PYREVIT_ADDON_NAME)
        ver_dir == IF doc THEN <<" ">> ELSE op_join(app_dir, version(uiapp))
        st == MakeAppDirs(<<app_dir, ver_dir>>, 1,
                          [fs |-> fs_dirs, path |-> <<>>, calls |-> <<>>,
                           exc |-> NoException],
                          outcome)
    IN  /\ doc_mode' = doc
        /\ forced_debug_mode' = forced
        /\ PYREVIT_APP_DIR' = app_dir
        /\ PYREVIT_VERSION_APP_DIR' = ver_dir
        /\ fs_before' = fs_dirs
        /\ fs_dirs' = st.fs
        /\ sys_path' = st.path
        /\ mkdir_calls' = st.calls
        /\ init_exc' = st.exc
        /\ IF st.exc.raised
           THEN /\ pc' = "failed"
                /\ PYREVIT_FILE_PREFIX_UNIVERSAL' = Unbound
                /\ PYREVIT_FILE_PREFIX' = Unbound
                /\ PYREVIT_FILE_PREFIX_STAMPED' = Unbound
           ELSE /\ pc' = "pyrevit"
                /\ PYREVIT_FILE_PREFIX_UNIVERSAL' =
                       IF doc THEN None ELSE FilePrefixUniversal(uiapp)
                /\ PYREVIT_FILE_PREFIX' = IF doc THEN None ELSE FilePrefix(uiapp)
                /\ PYREVIT_FILE_PREFIX_STAMPED' =
                       IF doc THEN None ELSE FilePrefixStamped(uiapp, proc_id)
        /\ LoggerModuleFresh
        /\ last' = Op("import_pyrevit", "", 0, 0, 0, FALSE)
        /\ UNCHANGED <<env_vars, USER_ROAMING_DIR, last_mode_op, uiapp, proc_id, str_vars>>

\* The module body of logger.py.
ImportLogger ==
    /\ pc = "pyrevit"
    /\ pc' = "logger"
    /\ RUNTIME_LOGGING_LEVEL' = SelectLevel(doc_mode, env_vars, forced_debug_mode)
    /\ stdout_hndlr' = [level |-> RUNTIME_LOGGING_LEVEL']
    /\ file_hndlr' = [level |-> RUNTIME_FILE_LOGGING_LEVEL]
    /\ FILE_LOGGING_STATUS' = FALSE
    /\ loggers' = [k \in LoggerNames |-> NoLogger]
    /\ last' = Op("import_logger", "", 0, 0, 0, FALSE)
    /\ UNCHANGED <<env_vars, USER_ROAMING_DIR, fs_dirs, last_mode_op, boot_vars,
                   loggerDict, objs, first, str_vars>>

\* logging.getLogger(name): the manager hands out one LoggerWrapper per name.
logging_getLogger(dict, o, name) ==
    IF dict[name] # NoLogger
    THEN [id |-> dict[name], dict |-> dict, objs |-> o]
    ELSE [id |-> Len(o) + 1,
          dict |-> [dict EXCEPT ![name] = Len(o) + 1],
          objs |-> Append(o, [name |-> name, handlers |-> <<>>, propagate |-> TRUE,
                              level |-> NOTSET])]

\* Logger.addHandler: a handler already attached is not attached again.
addHandler(o, id, hndlr) ==
    IF \E i \in 1..Len(o[id].handlers) : o[id].handlers[i] = hndlr THEN o
    ELSE [o EXCEPT ![id].handlers = Append(@, hndlr)]

\* loggers.update(dict(logger_name=logger)): the keyword is the key
RegistryKey(logger_name) == "logger_name"

get_logger(logger_name) ==
    /\ pc = "logger"
    /\ IF loggers[logger_name] # NoLogger
       THEN /\ last' = Op("get_logger", logger_name, 0, loggers[logger_name], 0, TRUE)
            /\ first' = IF first[logger_name] = NoLogger
                        THEN [first EXCEPT ![logger_name] = loggers[logger_name]]
                        ELSE first
            /\ UNCHANGED <<loggers, loggerDict, objs>>
       ELSE LET got == logging_getLogger(loggerDict, objs, logger_name)
                o1 == addHandler(got.objs, got.id, "stdout_hndlr")
                o2 == [o1 EXCEPT ![got.id].propagate = FALSE]
                o3 == IF FILE_LOGGING_STATUS THEN addHandler(o2, got.id, "file_hndlr")
                      ELSE o2
            IN  /\ loggerDict' = got.dict
                /\ objs' = o3
                /\ loggers' = [loggers EXCEPT ![RegistryKey(logger_name)] = got.id]
                /\ last' = Op("get_logger", logger_name, 0, got.id, 0, FALSE)
                /\ first' = IF first[logger_name] = NoLogger
                            THEN [first EXCEPT ![logger_name] = got.id]
                            ELSE first
    /\ UNCHANGED <<pc, env_vars, USER_ROAMING_DIR, fs_dirs, last_mode_op, boot_vars,
                   RUNTIME_LOGGING_LEVEL, stdout_hndlr, file_hndlr,
                   FILE_LOGGING_STATUS, str_vars>>

set_file_logging(status) ==
    /\ pc = "logger"
    /\ FILE_LOGGING_STATUS' = status
    /\ last' = Op("set_file_logging", "", 0, 0, 0, FALSE)
    /\ UNCHANGED <<pc, env_vars, USER_ROAMING_DIR, fs_dirs, last_mode_op, boot_vars,
                   RUNTIME_LOGGING_LEVEL, stdout_hndlr, file_hndlr, loggers,
                   loggerDict, objs, first, str_vars>>

HandlerLevel(hndlr) ==
    IF hndlr = "stdout_hndlr" THEN stdout_hndlr.level ELSE file_hndlr.level

RECURSIVE MinHandlerLevel(_, _)
MinHandlerLevel(handlers, eff_level) ==
    IF handlers = <<>> THEN eff_level
    ELSE MinHandlerLevel(Tail(handlers),
                         IF HandlerLevel(Head(handlers)) < eff_level
                         THEN HandlerLevel(Head(handlers)) ELSE eff_level)

\* LoggerWrapper.getEffectiveLevel; the parent of every logger here is the
\* root logger, which has no handlers and level WARNING.
getEffectiveLevel(id) ==
    IF Len(objs[id].handlers) > 0 THEN MinHandlerLevel(objs[id].handlers, CRITICAL)
    ELSE IF objs[id].level # NOTSET THEN objs[id].level
    ELSE WARNING

\* self.handlers[0].setLevel(level)
SetFirstHandlerLevel(id, level) ==
    IF objs[id].handlers[1] = "stdout_hndlr"
    THEN /\ stdout_hndlr' = [stdout_hndlr EXCEPT !.level = level]
         /\ UNCHANGED file_hndlr
    ELSE /\ file_hndlr' = [file_hndlr EXCEPT !.level = level]
         /\ UNCHANGED stdout_hndlr

\* LoggerWrapper._reset_logger_env_vars
reset_logger_env_vars(env, verbose, debug) ==
    LET e1 == set_pyrevit_env_var(env, VERBOSE_ISC_NAME, PyBool(verbose))
    IN  set_pyrevit_env_var(e1, DEBUG_ISC_NAME, PyBool(debug))

LevelFrame ==
    UNCHANGED <<pc, USER_ROAMING_DIR, fs_dirs, boot_vars, RUNTIME_LOGGING_LEVEL,
                FILE_LOGGING_STATUS, loggers, loggerDict, objs, first, str_vars>>

set_level(id, level) ==
    /\ pc = "logger"
    /\ id \in 1..Len(objs)
    /\ SetFirstHandlerLevel(id, level)
    /\ last' = Op("set_level", "", id, 0, level, FALSE)
    /\ UNCHANGED <<env_vars, last_mode_op>>
    /\ LevelFrame

\* Variant of set_verbose_mode that leaves the debug variable as it is.
set_verbose_mode_keeps_debug(id) ==
    /\ pc = "logger"
    /\ id \in 1..Len(objs)
    /\ env_vars' = set_pyrevit_env_var(env_vars, VERBOSE_ISC_NAME, PyBool(TRUE))
    /\ SetFirstHandlerLevel(id, INFO)
    /\ last_mode_op' = "set_verbose_mode"
    /\ last' = Op("set_verbose_mode", "", id, 0, INFO, FALSE)
    /\ LevelFrame

set_verbose_mode(id) ==
    /\ pc = "logger"
    /\ id \in 1..Len(objs)
    /\ env_vars' = reset_logger_env_vars(env_vars, TRUE, FALSE)
    /\ SetFirstHandlerLevel(id, INFO)
    /\ last_mode_op' = "set_verbose_mode"
    /\ last' = Op("set_verbose_mode", "", id, 0, INFO, FALSE)
    /\ LevelFrame

set_debug_mode(id) ==
    /\ pc = "logger"
    /\ id \in 1..Len(objs)
    /\ env_vars' = reset_logger_env_vars(env_vars, FALSE, TRUE)
    /\ SetFirstHandlerLevel(id, DEBUG)
    /\ last_mode_op' = "set_debug_mode"
    /\ last' = Op("set_debug_mode", "", id, 0, DEBUG, FALSE)
    /\ LevelFrame

reset_level(id) ==
    /\ pc = "logger"
    /\ id \in 1..Len(objs)
    /\ env_vars' = reset_logger_env_vars(env_vars, FALSE, FALSE)
    /\ SetFirstHandlerLevel(id, RUNTIME_LOGGING_LEVEL)
    /\ last_mode_op' = "reset_level"
    /\ last' = Op("reset_level", "", id, 0, RUNTIME_LOGGING_LEVEL, FALSE)
    /\ LevelFrame

\* ------------------------------------------------------ specifications
IscNames == {VERBOSE_ISC_NAME, DEBUG_ISC_NAME}

\* A session in which no session variable has been set yet.
NoSessionVars == [n \in IscNames |-> "None"]

InitWith(envs, names, versions, pids, appdatas) ==
    /\ pc = "idle"
    /\ env_vars \in envs
    /\ USER_ROAMING_DIR \in appdatas
    /\ fs_dirs = {}
    /\ fs_before = {}
    /\ last_mode_op = "none"
    /\ uiapp \in [Username : names, VersionNumber : versions]
    /\ proc_id \in pids
    /\ doc_mode = FALSE
    /\ forced_debug_mode = FALSE
    /\ PYREVIT_APP_DIR = Unbound
    /\ PYREVIT_VERSION_APP_DIR = Unbound
    /\ sys_path = <<>>
    /\ mkdir_calls = <<>>
    /\ init_exc = NoException
    /\ PYREVIT_FILE_PREFIX_UNIVERSAL = Unbound
    /\ PYREVIT_FILE_PREFIX = Unbound
    /\ PYREVIT_FILE_PREFIX_STAMPED = Unbound
    /\ RUNTIME_LOGGING_LEVEL = WARNING
    /\ stdout_hndlr = [level |-> NOTSET]
    /\ file_hndlr = [level |-> NOTSET]
    /\ FILE_LOGGING_STATUS = FALSE
    /\ loggers = [k \in LoggerNames |-> NoLogger]
    /\ loggerDict = [k \in LoggerNames |-> NoLogger]
    /\ objs = <<>>
    /\ first = [k \in LoggerNames |-> NoLogger]
    /\ last = Op("none", "", 0, 0, 0, FALSE)
    /\ sys_exc = [type |-> "None", tb |-> <<>>]
    /\ str_result = [args |-> <<>>, fmt_fails |-> FALSE, out |-> Returned(<<>>)]

\* A session of the logging subsystem, for one host identity.
Init ==
    InitWith({NoSessionVars}, {<<"a",".","a","@","a">>}, {<<"2","0","1","7">>}, {4120},
             {<<"R">>})

\* A script of the session starts; errs: the errors os.mkdir may fail with.
StartScript(errs) ==
    \E doc \in BOOLEAN, forced \in BOOLEAN,
       outcome \in [1..2 -> {<<"o","k">>} \cup errs] :
        ImportPyrevit(doc, forced, outcome)

Next ==
    \/ StartScript({<<"E","5">>})
    \/ ImportLogger
    \/ \E n \in LoggerNames : get_logger(n)
    \/ \E status \in BOOLEAN : set_file_logging(status)
    \/ \E id \in 1..Cardinality(LoggerNames), level \in StdLevels : set_level(id, level)
    \/ \E id \in 1..Cardinality(LoggerNames) : set_verbose_mode(id)
    \/ \E id \in 1..Cardinality(LoggerNames) : set_debug_mode(id)
    \/ \E id \in 1..Cardinality(LoggerNames) : reset_level(id)

Spec == Init /\ [][Next]_vars

\* Start-up of scripts, over every host identity.
InitBoot == InitWith({NoSessionVars}, Usernames, Versions, ProcIds, AppDataDirs)

NextBoot == StartScript(OSErrors)

SpecBoot == InitBoot /\ [][NextBoot]_vars

\* Rendering of PyRevitException objects.
NextStr ==
    \E a \in ExcArgs, exc_info \in ExcInfos, fmt_fails \in BOOLEAN :
        Render(a, exc_info, fmt_fails)

SpecStr == Init /\ [][NextStr]_vars

\* Level selection as a function of its inputs: the session variables hold
\* any Python values when a script starts and imports the logger module.
InitLevel ==
    InitWith([IscNames -> PyValues], {<<"a",".","a","@","a">>}, {<<"2","0","1","7">>},
             {4120}, {<<"R">>})

NextLevel ==
    \/ StartScript({<<"E","5">>})
    \/ ImportLogger

SpecLevel == InitLevel /\ [][NextLevel]_vars

\* ---------------------------------------------------------- properties
ModeOps == {"set_verbose_mode", "set_debug_mode", "reset_level"}

\* C1: for every name n that was requested from get_logger, the registry
\* holds an entry keyed by n whose value is the logger created on the first
\* get_logger(n); a later get_logger(n) is served from the registry.
C1_RegistryKeyedByName ==
    pc = "logger" =>
        \A n \in LoggerNames : first[n] # NoLogger => loggers[n] = first[n]

\* C2: for a script neither in doc mode nor in forced debug mode, the console
\* level chosen when the logger module is imported is DEBUG if the last mode
\* operation of the session was set_debug_mode, INFO if it was
\* set_verbose_mode, WARNING if it was reset_level or there was none.
C2_SessionFlagsCarryMode ==
    (last.op = "import_logger" /\ ~doc_mode /\ ~forced_debug_mode) =>
        stdout_hndlr.level =
            CASE last_mode_op = "set_debug_mode" -> DEBUG
              [] last_mode_op = "set_verbose_mode" -> INFO
              [] last_mode_op \in {"reset_level", "none"} -> WARNING

C2_Witness ==
    /\ last.op = "import_logger" /\ ~doc_mode /\ ~forced_debug_mode
    /\ last_mode_op = "set_verbose_mode"
    /\ stdout_hndlr.level = INFO

NotDot(c) == c # "."
\* the index of the first '@' of s, Len(s) + 1 when there is none
FirstAt(s) ==
    CHOOSE k \in 1..(Len(s) + 1) :
        /\ k = Len(s) + 1 \/ s[k] = "@"
        /\ \A j \in 1..(k - 1) : s[j] # "@"
CleanUser(s) == SelectSeq(SubSeq(s, 1, FirstAt(s) - 1), NotDot)
DecimalOf == (7 :> <<"7">>) @@ (4120 :> <<"4","1","2","0">>)
Pfx == <<"p","y","R","e","v","i","t","_">>

\* C3: outside doc mode the three file prefixes are 'pyRevit_' + username,
\* 'pyRevit_' + version + '_' + username and the latter + '_' + process id,
\* where username is the host user name cut at the first '@' with every '.'
\* removed, so it holds neither '@' nor '.'; in doc mode all three are None.
C3_FilePrefixes ==
    pc = "pyrevit" =>
        IF doc_mode
        THEN /\ PYREVIT_FILE_PREFIX_UNIVERSAL = None
             /\ PYREVIT_FILE_PREFIX = None
             /\ PYREVIT_FILE_PREFIX_STAMPED = None
        ELSE LET u == CleanUser(uiapp.Username)
                 v == uiapp.VersionNumber
             IN  /\ \A i \in 1..Len(u) : u[i] \notin {"@", "."}
                 /\ PYREVIT_FILE_PREFIX_UNIVERSAL = Pfx \o u
                 /\ PYREVIT_FILE_PREFIX = Pfx \o v \o <<"_">> \o u
                 /\ PYREVIT_FILE_PREFIX_STAMPED =
                        Pfx \o v \o <<"_">> \o u \o <<"_">> \o DecimalOf[proc_id]

C3_Witness ==
    /\ pc = "pyrevit" /\ ~doc_mode
    /\ uiapp.Username = <<".", "a", "@">>
    /\ proc_id = 4120
    /\ PYREVIT_FILE_PREFIX_STAMPED =
           <<"p","y","R","e","v","i","t","_">> \o uiapp.VersionNumber
           \o <<"_","a","_","4","1","2","0">>

\* s holds the string a and, somewhere after it, the string b
HoldsThen(s, a, b) ==
    \E i \in 1..Len(s), j \in 1..Len(s) :
        /\ i + Len(a) <= j
        /\ j + Len(b) - 1 <= Len(s)
        /\ SubSeq(s, i, i + Len(a) - 1) = a
        /\ SubSeq(s, j, j + Len(b) - 1) = b

\* C4: the application directory and then the per-version directory are
\* each created if they do not exist yet; when a creation fails with an OS
\* or IO error the initialisation stops with a PyRevitException whose message
\* holds the directory's path followed by the error, the remaining directory
\* is not attempted and the failed directory is not appended to sys.path.
C4_DirCreation ==
    last.op = "import_pyrevit" =>
        LET dirs == <<PYREVIT_APP_DIR, PYREVIT_VERSION_APP_DIR>>
            calls == mkdir_calls
            n == Len(calls)
        IN  \* only for a directory that did not exist, application directory first
            /\ n <= 2
            /\ \A i \in 1..n : calls[i].dir \notin fs_before
            /\ n = 2 => calls[1].dir = dirs[1] /\ calls[2].dir = dirs[2]
            /\ n = 1 => calls[1].dir \in {dirs[1], dirs[2]}
            /\ \A i \in 1..(n - 1) : calls[i].outcome \notin OSErrors
            /\ IF n > 0 /\ calls[n].outcome \in OSErrors
               THEN \* the failure stops the initialisation
                    /\ pc = "failed"
                    /\ init_exc.raised
                    /\ Len(init_exc.args) = 1
                    /\ HoldsThen(init_exc.args[1], calls[n].dir, calls[n].outcome)
                    /\ calls[n].dir = dirs[1] /\ dirs[2] # dirs[1] =>
                           \A i \in 1..n : calls[i].dir # dirs[2]
                    /\ \A i \in 1..Len(sys_path) : sys_path[i] # calls[n].dir
                    /\ calls[n].dir \notin fs_dirs
               ELSE \* both directories exist afterwards
                    /\ pc = "pyrevit"
                    /\ ~init_exc.raised
                    /\ dirs[1] \in fs_dirs /\ dirs[2] \in fs_dirs
                    /\ \A i \in 1..2 : dirs[i] \notin fs_before =>
                           \E k \in 1..n : calls[k].dir = dirs[i] /\ sys_path[k] = dirs[i]

C4_Witness ==
    /\ pc = "failed" /\ ~doc_mode
    /\ Len(mkdir_calls) = 2
    /\ mkdir_calls[2].dir = PYREVIT_VERSION_APP_DIR
    /\ sys_path = <<PYREVIT_APP_DIR>>
    /\ fs_dirs = {PYREVIT_APP_DIR}

\* C5: rendering a PyRevitException never raises; when the first traceback
\* entry of the exception being handled can be formatted the result is the
\* first argument, a blank line, the title 'Traceback:' and that entry (the
\* title and the entry alone without arguments); otherwise, also when no
\* exception is being handled, it is the plain Exception string.
C5_StrNeverRaises ==
    last.op = "str" =>
        LET a == str_result.args
            nl == <<"\n">>
        IN  /\ ~str_result.out.raised
            /\ IF sys_exc.type # "None" /\ ~str_result.fmt_fails
               THEN LET entry == FormatFrame(sys_exc.tb[1])
                    IN  str_result.out.value =
                            IF Len(a) > 0
                            THEN a[1] \o nl \o nl \o TRACEBACK_TITLE \o nl \o entry
                            ELSE TRACEBACK_TITLE \o nl \o entry
               ELSE str_result.out.value =
                        IF Len(a) = 0 THEN <<>>
                        ELSE IF Len(a) = 1 THEN a[1]
                        ELSE Exception_str(a)

C5_Witness ==
    /\ last.op = "str"
    /\ sys_exc.type = "Exception"
    /\ sys_exc.tb[1] = [file |-> <<"f">>, line |-> 12, name |-> <<"h">>]
    /\ str_result.args = << <<"m">> >>
    /\ ~str_result.fmt_fails
    /\ str_result.out.value =
           <<"m","\n","\n","T","r","a","c","e","b","a","c","k",":","\n"," "," ","F","i","l","e",
             " ","\"","f","\"",","," ","l","i","n","e"," ","1","2",","," ","i","n"," ","h","\n">>

\* C6: after set_level(L), set_verbose_mode (L = INFO) or set_debug_mode
\* (L = DEBUG) on one logger, getEffectiveLevel() of every other logger
\* returned by get_logger is L.
C6_LevelSharedByLoggers ==
    last.op \in {"set_level", "set_verbose_mode", "set_debug_mode"} =>
        \A other \in 1..Len(objs) :
            other # last.logger => getEffectiveLevel(other) = last.level

\* C7: at the import of the logger module, outside doc mode the console level
\* is DEBUG if the debug session flag is set or forced debug mode is on,
\* else INFO if the verbose session flag is set, else WARNING; in doc mode it
\* is WARNING; the file handler level is DEBUG.
C7_LevelSelection ==
    last.op = "import_logger" =>
        LET debug == env_vars[DEBUG_ISC_NAME] = "True"
            verbose == env_vars[VERBOSE_ISC_NAME] = "True"
            expected == IF doc_mode THEN 30
                        ELSE IF debug \/ forced_debug_mode THEN 10
                        ELSE IF verbose THEN 20
                        ELSE 30
        IN  /\ RUNTIME_LOGGING_LEVEL = expected
            /\ stdout_hndlr.level = expected
            /\ file_hndlr.level = 10

C7_Witness ==
    /\ last.op = "import_logger" /\ ~doc_mode /\ ~forced_debug_mode
    /\ env_vars[DEBUG_ISC_NAME] = "True" /\ env_vars[VERBOSE_ISC_NAME] = "True"
    /\ stdout_hndlr.level = DEBUG

\* C8: get_logger(n) returns a logger whose name is n, and calls with
\* different names never return the same logger instance.
C8_NamedAndDistinct ==
    last.op = "get_logger" =>
        /\ objs[last.ret].name = last.name
        /\ \A m \in LoggerNames \ {last.name} : first[m] # last.ret

\* C9: in a script neither in forced debug mode nor in doc mode, after
\* set_verbose_mode, set_debug_mode or reset_level the console handler's level
\* is the level a script started next would select from the session flags.
C9_HandlerAgreesWithFlags ==
    (pc = "logger" /\ ~doc_mode /\ ~forced_debug_mode /\ last.op \in ModeOps) =>
        stdout_hndlr.level =
            IF env_vars[DEBUG_ISC_NAME] = "True" THEN DEBUG
            ELSE IF env_vars[VERBOSE_ISC_NAME] = "True" THEN INFO
            ELSE WARNING

====
